---- MODULE Spec2Model ----
(***************************************************************************)
(* Model of the rollup plugin `components` (scripts/rollup/components.js): *)
(* the cache-backed fetch wrapper getData, the three fetchers, merge,      *)
(* updateItem and the batched transform.                                   *)
(*                                                                         *)
(* JavaScript values are tagged records (Undef, Null, Str, Arr, Num) and   *)
(* every JavaScript string is a sequence of one-character strings, so that *)
(* String.replace, String.includes, String.startsWith and the regular      *)
(* expressions of the source are computed, not assumed.  An object is a    *)
(* function from its own keys to values.                                   *)
(*                                                                         *)
(* One step of the model is one run of the JavaScript event loop between   *)
(* two I/O completions: the synchronous code and the microtasks that       *)
(* follow a completion are part of the action that models the completion.  *)
(* The I/O operations are cache.get, the remote call of a producer, and    *)
(* the write that cache.set starts and getData does not await.             *)
(*                                                                         *)
(* Spec is a first run of the build with a store that works.  SpecStore    *)
(* and SpecItem are runs that may find entries of an earlier run in the    *)
(* cache and whose cache.set may throw or lose its write; SpecItem runs on *)
(* a catalog of one item drawn from a wide set of items.                   *)
(*                                                                         *)
(* Not modelled: the expiry of cache entries (line 23: a run is shorter    *)
(* than the 24 hours an entry lives), the console output other than the    *)
(* progress reports, and a source text that parses to something other than *)
(* an array of objects.                                                    *)
(***************************************************************************)
EXTENDS Integers, Sequences, FiniteSets, TLC

VARIABLES
    pc,        \* position of transform: idle, batch, done, skipped, warned, rejected
    json,      \* the source text handed to transform, as what JSON.parse makes of it
    parsed,    \* `parsed` of transform (line 224)
    i,         \* loop counter of transform (line 226)
    tasks,     \* the promises of the current batch (line 228), one record per item
    cache,     \* content of the DiskCache: normalized key -> stored data
    writes,    \* cache.set calls issued (line 43) whose write has not completed
    calls,     \* history: raw key -> remote calls issued for it (n), those after a read fault (f)
    firstRet,  \* history: raw key -> the first getData call that returned for it
    laterRet,  \* history: getData calls that started after a call of the same key returned
    failedIdx, \* history: catalog positions whose remote calls were all made and all failed
    setThrewIdx, \* history: catalog positions whose updateItem met a cache.set that threw
    started,   \* history: catalog positions whose updateItem has been started
    settledIdx, \* history: catalog positions whose updateItem promise has settled
    progress,  \* the reports written by writeProgress
    warnings,  \* the objects passed to this.warn
    output,    \* what transform returned
    fnIn,      \* input of the pure function under check (SpecMerge, SpecKey)
    fnOut,     \* its result
    fnPc       \* "in" before the call, "out" after it

vars == <<pc, json, parsed, i, tasks, cache, writes, calls, firstRet, laterRet,
          failedIdx, setThrewIdx, started, settledIdx, progress, warnings, output,
          fnIn, fnOut, fnPc>>

mainVars == <<pc, json, parsed, i, tasks, cache, writes, calls, firstRet, laterRet,
              failedIdx, setThrewIdx, started, settledIdx, progress, warnings, output>>

fnVars == <<fnIn, fnOut, fnPc>>

(***************************************************************************)
(* JavaScript values                                                       *)
(***************************************************************************)
Undef == [k |-> "undefined"]
Null == [k |-> "null"]
Str(s) == [k |-> "str", s |-> s]
Arr(a) == [k |-> "arr", a |-> a]
Num(n) == [k |-> "num", n |-> n]
Obj(o) == [k |-> "obj", o |-> o]

EmptyObj == [x \in {} |-> Undef]

\* obj[key], undefined when the object has no such key
Get(obj, key) == IF key \in DOMAIN obj THEN obj[key] ELSE Undef

\* obj with obj[key] = value
Put(obj, key, value) ==
    [x \in DOMAIN obj \cup {key} |-> IF x = key THEN value ELSE obj[x]]

\* ToBoolean of a value
Truthy(v) ==
    /\ v # Undef
    /\ v # Null
    /\ v # Str(<<>>)
    /\ v # Num(0)

\* a || b
OrElse(a, b) == IF Truthy(a) THEN a ELSE b

\* String.prototype.includes: needle occurs in s as a contiguous run
Includes(s, needle) ==
    \E p \in 1..(Len(s) - Len(needle) + 1) : SubSeq(s, p, p + Len(needle) - 1) = needle

svelte == <<"s", "v", "e", "l", "t", "e">>

\* tags and titles of the inputs
ui == <<"u", "i">>
Svelte == <<"S", "v", "e", "l", "t", "e">>
xsveltei == <<"x">> \o svelte \o <<"-", "i">>
titleA == Str(<<"A">>)
titleB == Str(<<"B">>)

\* the sequences over S of length at most n
SeqsUpTo(S, n) == UNION {[1..m -> S] : m \in 0..n}

(***************************************************************************)
(* merge (lines 176-194)                                                   *)
(***************************************************************************)
\* line 180: value === [] compares references and is false for every value
SkippedValue(value) == value = Undef \/ value = Null \/ value = Str(<<>>)

\* line 188: the filter callback, tag => !tag.includes('svelte')
NoSvelte(tag) == ~Includes(tag, svelte)

\* line 188: Array.prototype.filter with that callback
RECURSIVE FilterTags(_)
FilterTags(seq) ==
    IF seq = <<>> THEN <<>>
    ELSE IF NoSvelte(Head(seq)) THEN <<Head(seq)>> \o FilterTags(Tail(seq))
         ELSE FilterTags(Tail(seq))

\* line 188: newData.tags || [] spread; tags are arrays or falsy in this model
TagsOrEmpty(newData) ==
    IF Truthy(Get(newData, "tags")) THEN Get(newData, "tags").a ELSE <<>>

\* mutant: only the incoming tags are filtered
MergedTagsIncomingOnly(newData, value) == Arr(TagsOrEmpty(newData) \o FilterTags(value.a))

MergedTags(newData, value) == Arr(FilterTags(TagsOrEmpty(newData) \o value.a))

\* mutant: the test of line 183 is lost, so a present key is overwritten
MergeEntryOverwrite(newData, key, value) ==
    IF SkippedValue(value) THEN newData
    ELSE IF key = "tags" /\ value.k = "arr" /\ key \in DOMAIN newData
         THEN Put(newData, "tags", Arr(FilterTags(TagsOrEmpty(newData) \o value.a)))
    ELSE Put(newData, key, value)

\* the body of the forEach callback for one entry of additional (lines 180-189)
MergeEntry(newData, key, value) ==
    IF SkippedValue(value) THEN newData
    ELSE IF key \notin DOMAIN newData THEN Put(newData, key, value)
    ELSE IF key = "tags" /\ value.k = "arr" THEN Put(newData, "tags", MergedTags(newData, value))
    ELSE newData

\* Object.entries(additional).forEach: the callback for a key reads and writes
\* that key alone, so the order in which the keys are taken does not matter.
RECURSIVE MergeFold(_, _, _)
MergeFold(newData, additional, keys) ==
    IF keys = {} THEN newData
    ELSE LET key == CHOOSE x \in keys : TRUE
         IN MergeFold(MergeEntry(newData, key, additional[key]), additional, keys \ {key})

merge(base, additional) == MergeFold(base, additional, DOMAIN additional)

\* the transform is not running: the state of the specifications of pure functions
MainIdle ==
    /\ pc = "off"
    /\ json = Null
    /\ parsed = <<>>
    /\ i = 0
    /\ tasks = <<>>
    /\ cache = EmptyObj
    /\ writes = {}
    /\ calls = EmptyObj
    /\ firstRet = EmptyObj
    /\ laterRet = {}
    /\ failedIdx = {}
    /\ setThrewIdx = {}
    /\ started = {}
    /\ settledIdx = {}
    /\ progress = <<>>
    /\ warnings = <<>>
    /\ output = Undef

(***************************************************************************)
(* Cache keys (lines 32-34, 53, 102, 145)                                  *)
(***************************************************************************)
\* String.prototype.replace with a string pattern: the first occurrence only
ReplaceFirst(s, ch, rep) ==
    IF \E p \in 1..Len(s) : s[p] = ch
    THEN LET p == CHOOSE q \in 1..Len(s) : s[q] = ch /\ \A r \in 1..(q - 1) : s[r] # ch
         IN SubSeq(s, 1, p - 1) \o rep \o SubSeq(s, p + 1, Len(s))
    ELSE s

AtToken == <<"-", "-", "A", "T", "-", "-">>
SlashToken == <<"-", "-", "S", "L", "A", "S", "H", "-", "-">>

\* lines 32-34
NormalizeKey(cacheKey) == ReplaceFirst(ReplaceFirst(cacheKey, "@", AtToken), "/", SlashToken)

\* line 53: `npm-${packageName}`
NpmKey(packageName) == <<"n", "p", "m", "-">> \o packageName

\* line 102: `github-${owner}-${repo}`
GithubKey(owner, repo) == <<"g", "i", "t", "h", "u", "b", "-">> \o owner \o <<"-">> \o repo

\* line 145: `gitlab-${owner}-${repo}`
GitlabKey(owner, repo) == <<"g", "i", "t", "l", "a", "b", "-">> \o owner \o <<"-">> \o repo

\* the raw key a fetcher builds for an identifier
RawKey(ident) ==
    IF ident.platform = "npm" THEN NpmKey(ident.name)
    ELSE IF ident.platform = "github" THEN GithubKey(ident.owner, ident.repo)
    ELSE GitlabKey(ident.owner, ident.repo)

(***************************************************************************)
(* URLs (lines 56-59, 91-100, 139-143)                                     *)
(***************************************************************************)
gitPlus == <<"g", "i", "t", "+">>
dotGit == <<".", "g", "i", "t">>
httpsGithub == <<"h", "t", "t", "p", "s", ":", "/", "/", "g", "i", "t", "h", "u", "b", ".", "c", "o", "m", "/">>
sshGithub == <<"s", "s", "h", ":", "/", "/", "g", "i", "t", "@", "g", "i", "t", "h", "u", "b", ".", "c", "o", "m", "/">>
gitGithub == <<"g", "i", "t", ":", "/", "/", "g", "i", "t", "h", "u", "b", ".", "c", "o", "m", "/">>
httpsGitlab == <<"h", "t", "t", "p", "s", ":", "/", "/", "g", "i", "t", "l", "a", "b", ".", "c", "o", "m", "/">>
schemeSep == <<":", "/", "/">>
gitAt == <<"g", "i", "t", "@">>
githubHost == <<"g", "i", "t", "h", "u", "b", ".", "c", "o", "m", "/">>

\* String.prototype.startsWith
StartsWith(s, prefix) == Len(s) >= Len(prefix) /\ SubSeq(s, 1, Len(prefix)) = prefix

EndsWith(s, suffix) ==
    Len(s) >= Len(suffix) /\ SubSeq(s, Len(s) - Len(suffix) + 1, Len(s)) = suffix

\* lines 57-58: .replace(/^git\+/, '').replace(/\.git$/, '')
StripGit(s) ==
    LET t == IF StartsWith(s, gitPlus) THEN SubSeq(s, Len(gitPlus) + 1, Len(s)) ELSE s
    IN IF EndsWith(t, dotGit) THEN SubSeq(t, 1, Len(t) - Len(dotGit)) ELSE t

\* the longest prefix of s without a "/": what [^\/]+ takes, when it is not empty
Segment(s) ==
    IF \E p \in 1..Len(s) : s[p] = "/"
    THEN SubSeq(s, 1, (CHOOSE q \in 1..Len(s) : s[q] = "/" /\ \A r \in 1..(q - 1) : s[r] # "/") - 1)
    ELSE s

\* exec found no match: null
NoMatch == [ok |-> FALSE]

\* ([^\/]+)\/([^\/]+) at the start of rest: the two groups, or no match
OwnerRepo(rest) ==
    LET owner == Segment(rest)
        after == SubSeq(rest, Len(owner) + 2, Len(rest))
    IN IF owner = <<>> \/ Len(rest) = Len(owner) \/ Segment(after) = <<>>
       THEN NoMatch
       ELSE [ok |-> TRUE, owner |-> owner, repo |-> Segment(after)]

\* the prefixes /^(?:https|ssh|git):\/\/(?:git@)?github\.com\// matches
GithubRegexPrefixes ==
    {scheme \o schemeSep \o user \o githubHost :
        scheme \in {<<"h", "t", "t", "p", "s">>, <<"s", "s", "h">>, <<"g", "i", "t">>},
        user \in {<<>>, gitAt}}

\* line 98: the exec of the GitHub pattern
GithubExec(url) ==
    IF \E pre \in GithubRegexPrefixes : StartsWith(url, pre)
    THEN LET pre == CHOOSE q \in GithubRegexPrefixes : StartsWith(url, q)
         IN OwnerRepo(SubSeq(url, Len(pre) + 1, Len(url)))
    ELSE NoMatch

\* line 141: the exec of the GitLab pattern
GitlabExec(url) ==
    IF StartsWith(url, httpsGitlab)
    THEN OwnerRepo(SubSeq(url, Len(httpsGitlab) + 1, Len(url)))
    ELSE NoMatch

\* lines 92-96
GithubUrl(url) ==
    StartsWith(url, httpsGithub) \/ StartsWith(url, sshGithub) \/ StartsWith(url, gitGithub)

(***************************************************************************)
(* The value producers of the fetchers.  resp is the outcome of the remote *)
(* call: [ok |-> TRUE, data |-> ...] or [ok |-> FALSE].                    *)
(***************************************************************************)
\* lines 68-74
NpmEmpty ==
    [description |-> Null, tags |-> Arr(<<>>), repo |-> Null, url |-> Null, title |-> Null]

\* lines 85-90
GithubEmpty == [stars |-> Null, description |-> Null, title |-> Null, url |-> Null]

\* lines 132-138
GitlabEmpty ==
    [stars |-> Null, description |-> Null, title |-> Null, url |-> Null, tags |-> Arr(<<>>)]

\* line 56: npmInfo.repository && npmInfo.repository.url || ''
NpmRepoUrl(npmInfo) ==
    LET repository == Get(npmInfo, "repository")
    IN IF Truthy(repository) /\ Truthy(Get(repository.o, "url"))
       THEN Get(repository.o, "url")
       ELSE Str(<<>>)

\* lines 54-75
NpmProducer(resp) ==
    IF resp.ok
    THEN LET stripped == StripGit(NpmRepoUrl(resp.data).s)
         IN [description |-> Get(resp.data, "description"),
             tags |-> Get(resp.data, "keywords"),
             url |-> Get(resp.data, "homepage"),
             repo |-> IF stripped = <<>> THEN Null ELSE Str(stripped),
             title |-> Get(resp.data, "name")]
    ELSE NpmEmpty

\* lines 105-112: the record the .catch of the call resolves to
GithubCatch ==
    [stargazers_count |-> Null, description |-> Null, name |-> Null, homepage |-> Null]

\* mutant: the homepage is returned as repo, not as url (line 120)
GithubProducerHomepageAsRepo(resp) ==
    LET data == IF resp.ok THEN resp.data ELSE GithubCatch
    IN [stars |-> Get(data, "stargazers_count"),
        description |-> Get(data, "description"),
        title |-> Get(data, "name"),
        repo |-> Get(data, "homepage")]

\* lines 103-122
GithubProducer(resp) ==
    LET data == IF resp.ok THEN resp.data ELSE GithubCatch
    IN [stars |-> Get(data, "stargazers_count"),
        description |-> Get(data, "description"),
        title |-> Get(data, "name"),
        url |-> Get(data, "homepage")]

\* lines 148-154
GitlabCatch ==
    [star_count |-> Null, description |-> Null, name |-> Null, web_url |-> Null,
     tag_list |-> Arr(<<>>)]

\* lines 146-165
GitlabProducer(resp) ==
    LET gitlabInfo == IF resp.ok THEN resp.data ELSE GitlabCatch
    IN [stars |-> Get(gitlabInfo, "star_count"),
        description |-> Get(gitlabInfo, "description"),
        title |-> Get(gitlabInfo, "name"),
        url |-> Get(gitlabInfo, "web_url"),
        tags |-> Get(gitlabInfo, "tag_list")]

\* the valueGetter of a getData call made at the given stage of updateItem
Producer(stage, resp) ==
    IF stage = "npm" THEN NpmProducer(resp)
    ELSE IF stage = "github" THEN GithubProducer(resp)
    ELSE GitlabProducer(resp)

\* JSON.stringify of an object: a property whose value is undefined is left out
JsonStringify(value) ==
    [text |-> [x \in {y \in DOMAIN value : value[y] # Undef} |-> value[x]]]

\* JSON.parse of a text JSON.stringify wrote
JsonParse(data) == data.text

(***************************************************************************)
(* The remote services: what a successful call returns for an identifier   *)
(***************************************************************************)
pkg == <<"@", "s", "/", "p">>
ghAB == httpsGithub \o <<"a", "/", "b">>
glAB == httpsGitlab \o <<"a", "/", "b">>

\* line 55: the metadata of a package; it declares no homepage
RegistryData(name) ==
    [description |-> Str(<<"D">>),
     keywords |-> Arr(<<svelte, ui>>),
     repository |-> Obj([url |-> Str(gitPlus \o ghAB \o dotGit)]),
     name |-> Str(name)]

\* line 104: the data of a GitHub repository; the repository "c" declares a
\* homepage, the others declare none
GithubData(owner, repo) ==
    [stargazers_count |-> Num(5), description |-> Str(<<"G">>), name |-> Str(repo),
     homepage |-> IF repo = <<"c">> THEN Str(glAB) ELSE Null]

\* line 147: a GitLab project
GitlabData(owner, repo) ==
    [star_count |-> Num(3), description |-> Str(<<"L">>), name |-> Str(repo),
     web_url |-> Str(httpsGitlab \o owner \o <<"/">> \o repo), tag_list |-> Arr(<<svelte>>)]

RemoteData(ident) ==
    IF ident.platform = "npm" THEN RegistryData(ident.name)
    ELSE IF ident.platform = "github" THEN GithubData(ident.owner, ident.repo)
    ELSE GitlabData(ident.owner, ident.repo)

(***************************************************************************)
(* updateItem (lines 203-212) as the promise of one item.  st is "get"     *)
(* while cache.get is pending (line 37), "remote" while the remote call of *)
(* the producer is pending (line 42), "fulfilled" or "rejected" at the end.*)
(* The operators below run the synchronous code up to the next pending     *)
(* I/O; fr is firstRet at that moment.                                     *)
(***************************************************************************)
NoIdent == [platform |-> "none"]

NewTask(idx, item) ==
    [idx |-> idx, st |-> "run", stage |-> "npm", item |-> item, ident |-> NoIdent,
     later |-> FALSE, fault |-> FALSE, nRemote |-> 0, nFail |-> 0, nHit |-> 0, got |-> <<>>]

\* updateItem returned (value is the item) or threw (value is undefined)
Settled(task, st, value) ==
    [task EXCEPT !.st = st, !.stage = "end", !.item = value, !.ident = NoIdent,
                 !.later = FALSE, !.fault = FALSE]

\* line 37: getData was called and awaits cache.get
AwaitGet(task, stage, ident, fr) ==
    [task EXCEPT !.st = "get", !.stage = stage, !.ident = ident,
                 !.later = RawKey(ident) \in DOMAIN fr, !.fault = FALSE]

\* mutant: item.url || item.repo
LookupUrlUrlFirst(item) == OrElse(Get(item, "url"), Get(item, "repo"))

\* item.repo || item.url (lines 208, 209)
LookupUrl(item) == OrElse(Get(item, "repo"), Get(item, "url"))

\* item = merge(item, await get...Info(...)) (lines 205, 208, 209): the record the
\* fetcher of the stage returned is merged; got keeps what the fetcher was called
\* with, whether it called getData (io), and the record
Folded(task, stage, io, value) ==
    [task EXCEPT !.item = merge(task.item, value),
                 !.got = Append(@, [stage |-> stage,
                                    arg |-> IF stage = "npm" THEN Get(task.item, "npm")
                                            ELSE LookupUrl(task.item),
                                    io |-> io, value |-> value])]

\* line 211: updateItem returns the item
Fulfilled(task) == Settled(task, "fulfilled", task.item)

\* getGitlabInfo(url) up to line 145, and line 211 when it returns at once
GitlabInfo(task, url, fr) ==
    IF url = Undef \/ url = Null
    THEN Fulfilled(Folded(task, "gitlab", FALSE, GitlabEmpty))
    ELSE IF url.k # "str" THEN Settled(task, "rejected", Undef)
    ELSE IF ~StartsWith(url.s, httpsGitlab)
    THEN Fulfilled(Folded(task, "gitlab", FALSE, GitlabEmpty))
    ELSE IF ~GitlabExec(url.s).ok THEN Settled(task, "rejected", Undef)
    ELSE AwaitGet(task, "gitlab",
                  [platform |-> "gitlab", owner |-> GitlabExec(url.s).owner,
                   repo |-> GitlabExec(url.s).repo], fr)

\* line 209: getGitlabInfo(item.repo || item.url), for the item as it stands
FromGitlab(task, fr) ==
    CHOOSE next \in {GitlabInfo(t, LookupUrl(t.item), fr) : t \in {task}} : TRUE

\* getGithubInfo(url) up to line 102, and line 209 when it returns at once
GithubInfo(task, url, fr) ==
    IF url = Undef \/ url = Null
    THEN FromGitlab(Folded(task, "github", FALSE, GithubEmpty), fr)
    ELSE IF url.k # "str" THEN Settled(task, "rejected", Undef)
    ELSE IF ~GithubUrl(url.s)
    THEN FromGitlab(Folded(task, "github", FALSE, GithubEmpty), fr)
    ELSE IF ~GithubExec(url.s).ok THEN Settled(task, "rejected", Undef)
    ELSE AwaitGet(task, "github",
                  [platform |-> "github", owner |-> GithubExec(url.s).owner,
                   repo |-> GithubExec(url.s).repo], fr)

\* line 208: getGithubInfo(item.repo || item.url), for the item as it stands
FromGithub(task, fr) ==
    CHOOSE next \in {GithubInfo(t, LookupUrl(t.item), fr) : t \in {task}} : TRUE

\* lines 204-205 and getNpmInfo up to line 53
FromNpm(task, fr) ==
    IF "npm" \in DOMAIN task.item
    THEN AwaitGet(task, "npm", [platform |-> "npm", name |-> task.item.npm.s], fr)
    ELSE FromGithub(task, fr)

\* getData returned value to the fetcher of task.stage: the merge of that line
\* of updateItem and the lines after it
Continue(task, value, fr) ==
    LET next == Folded(task, task.stage, TRUE, value)
    IN IF task.stage = "npm" THEN FromGithub(next, fr)
       ELSE IF task.stage = "github" THEN FromGitlab(next, fr)
       ELSE Fulfilled(next)

\* mutant: only a fulfilled promise counts as settled
IsSettledFulfilled(task) == task.st = "fulfilled"

\* a promise of Promise.allSettled (line 229) has settled
IsSettled(task) == task.st \in {"fulfilled", "rejected"}

\* every remote call of the item was made and failed, and no cache entry was used
AllCallsFailed(task) ==
    task.st = "fulfilled" /\ task.nRemote >= 1 /\ task.nFail = task.nRemote /\ task.nHit = 0

(***************************************************************************)
(* transform (lines 217-248)                                               *)
(***************************************************************************)
chunkSize == 10

\* Math.ceil(n / c) for n >= 0
CeilDiv(n, c) == (n + c - 1) \div c

Min(a, b) == IF a <= b THEN a ELSE b

\* mutant: every item from the start of the batch on is started, not a slice
StartBatchAll(items, b, fr) ==
    LET lo == b * chunkSize
    IN [p \in 1..(Len(items) - lo) |-> FromNpm(NewTask(lo + p, items[lo + p]), fr)]

\* line 228: parsed.slice(i*chunkSize, (i+1)*chunkSize).map(item => updateItem(item))
StartBatch(items, b, fr) ==
    LET lo == b * chunkSize
        n == Min(Len(items), lo + chunkSize) - lo
    IN [p \in 1..n |-> FromNpm(NewTask(lo + p, items[lo + p]), fr)]

\* line 231: parsed.splice(i*chunkSize, chunkSize, ...promise.map(result => result.value))
Splice(items, b, ts) ==
    SubSeq(items, 1, b * chunkSize)
      \o [p \in 1..Len(ts) |-> IF ts[p].st = "fulfilled" THEN ts[p].item ELSE Undef]
      \o SubSeq(items, b * chunkSize + chunkSize + 1, Len(items))

\* line 199: the percentage, in tenths of a percent; "---.-" is -1
Percent(position, total) ==
    IF total > 0 THEN (2000 * position + total) \div (2 * total) ELSE -1

\* mutant: the position is not capped by the length of the catalog
ProgressPositionNoMin(len, b) == (b + 1) * chunkSize

\* line 233: Math.min(parsed.length, (i+1)*chunkSize)
ProgressPosition(len, b) == Min(len, (b + 1) * chunkSize)

\* lines 196-201
ProgressReport(position, total) ==
    [position |-> position, total |-> total, percent |-> Percent(position, total)]

\* line 241: JSON.stringify(parsed); undefined in an array is written as null
Serialize(items) ==
    [text |-> [p \in 1..Len(items) |->
                 IF items[p] = Undef THEN Null ELSE JsonStringify(items[p]).text]]

Digits == {"0", "1", "2", "3", "4", "5", "6", "7", "8", "9"}

DigitValue(d) ==
    CASE d = "0" -> 0 [] d = "1" -> 1 [] d = "2" -> 2 [] d = "3" -> 3 [] d = "4" -> 4
      [] d = "5" -> 5 [] d = "6" -> 6 [] d = "7" -> 7 [] d = "8" -> 8 [] d = "9" -> 9

\* /[\d]/.exec(message): matches when the message holds a digit
HasDigit(message) == \E p \in 1..Len(message) : message[p] \in Digits

\* line 244: parseInt of the text matched by /[\d]/, the first digit of the message
Position(message) ==
    DigitValue(message[CHOOSE p \in 1..Len(message) :
                         message[p] \in Digits /\ \A q \in 1..(p - 1) : message[q] \notin Digits])

\* the keys the tasks ts wait on are counted as requested
Requested(c, ts) ==
    LET asked == {RawKey(ts[p].ident) : p \in {q \in 1..Len(ts) : ts[q].st = "get"}}
    IN [x \in DOMAIN c \cup asked |-> IF x \in DOMAIN c THEN c[x] ELSE [n |-> 0, f |-> 0]]

SettledOf(ts) == {ts[p].idx : p \in {q \in 1..Len(ts) : IsSettled(ts[q])}}

FailedOf(ts) == {ts[p].idx : p \in {q \in 1..Len(ts) : AllCallsFailed(ts[q])}}

\* lines 217-229 and 242-247: transform up to its first await
Transform ==
    /\ pc = "idle"
    /\ UNCHANGED <<json, cache, writes, firstRet, laterRet, setThrewIdx, progress, fnVars>>
    /\ IF ~json.match
       THEN /\ pc' = "skipped"
            /\ output' = Null
            /\ UNCHANGED <<parsed, i, tasks, calls, failedIdx, started, settledIdx, warnings>>
       ELSE IF ~json.ok
       THEN /\ IF HasDigit(json.message)
               THEN /\ pc' = "warned"
                    /\ warnings' = Append(warnings, [message |-> "Could not parse JSON file",
                                                     id |-> json.id,
                                                     position |-> Position(json.message)])
                    /\ output' = Null
               ELSE /\ pc' = "rejected"
                    /\ UNCHANGED <<warnings, output>>
            /\ UNCHANGED <<parsed, i, tasks, calls, failedIdx, started, settledIdx>>
       ELSE /\ parsed' = json.items
            /\ i' = 0
            /\ UNCHANGED <<warnings, failedIdx>>
            /\ IF 0 < CeilDiv(Len(json.items), chunkSize)
               THEN LET ts == StartBatch(json.items, 0, firstRet)
                    IN /\ pc' = "batch"
                       /\ tasks' = ts
                       /\ calls' = Requested(calls, ts)
                       /\ started' = {ts[p].idx : p \in 1..Len(ts)}
                       /\ settledIdx' = SettledOf(ts)
                       /\ UNCHANGED output
               ELSE /\ pc' = "done"
                    /\ output' = Serialize(json.items)
                    /\ UNCHANGED <<tasks, calls, started, settledIdx>>

\* getData of task t returns value after prod invocations of the producer
\* (line 38 or line 44), and updateItem runs on to its next await
Returned(t, task, value, prod) ==
    LET raw == RawKey(task.ident)
        fr == IF raw \in DOMAIN firstRet THEN firstRet
              ELSE Put(firstRet, raw, [v |-> value, n |-> prod])
    IN \E ts \in {[tasks EXCEPT ![t] = Continue(task, value, fr)]} :
       /\ firstRet' = fr
       /\ laterRet' = IF task.later
                      THEN laterRet \cup {[raw |-> raw, first |-> firstRet[raw], v |-> value,
                                           n |-> prod, fault |-> task.fault]}
                      ELSE laterRet
       /\ tasks' = ts
       /\ calls' = Requested(calls, ts)
       /\ settledIdx' = settledIdx \cup SettledOf(ts)
       /\ failedIdx' = failedIdx \cup FailedOf(ts)
       /\ UNCHANGED setThrewIdx

\* line 38: cache.get resolved with an entry
CacheHit(t) ==
    /\ pc = "batch"
    /\ t \in DOMAIN tasks
    /\ tasks[t].st = "get"
    /\ NormalizeKey(RawKey(tasks[t].ident)) \in DOMAIN cache
    /\ Returned(t, [tasks[t] EXCEPT !.nHit = @ + 1],
                JsonParse(cache[NormalizeKey(RawKey(tasks[t].ident))].data), 0)
    /\ UNCHANGED <<pc, json, parsed, i, cache, writes, started, progress, warnings, output,
                   fnVars>>

\* the producer is invoked and issues its remote call (lines 42, 55, 104, 147)
InvokeProducer(t, fault) ==
    /\ tasks' = [tasks EXCEPT ![t].st = "remote", ![t].fault = fault /\ tasks[t].later,
                               ![t].nRemote = @ + 1]
    /\ calls' = [calls EXCEPT ![RawKey(tasks[t].ident)] =
                                 [n |-> @.n + 1, f |-> IF fault THEN @.f + 1 ELSE @.f]]
    /\ UNCHANGED <<pc, json, parsed, i, cache, writes, firstRet, laterRet, failedIdx,
                   setThrewIdx, started, settledIdx, progress, warnings, output, fnVars>>

\* lines 37-42: no entry is stored under the key, so cache.get yields none
CacheMiss(t) ==
    /\ pc = "batch"
    /\ t \in DOMAIN tasks
    /\ tasks[t].st = "get"
    /\ NormalizeKey(RawKey(tasks[t].ident)) \notin DOMAIN cache
    /\ InvokeProducer(t, FALSE)

\* mutant: the fault of the read is not caught and updateItem rejects
CacheReadFaultRaises(t) ==
    /\ pc = "batch"
    /\ t \in DOMAIN tasks
    /\ tasks[t].st = "get"
    /\ NormalizeKey(RawKey(tasks[t].ident)) \in DOMAIN cache
    /\ LET ts == [tasks EXCEPT ![t] = Settled(tasks[t], "rejected", Undef)]
       IN /\ tasks' = ts
          /\ settledIdx' = settledIdx \cup SettledOf(ts)
    /\ UNCHANGED <<pc, json, parsed, i, cache, writes, calls, firstRet, laterRet, failedIdx,
                   setThrewIdx, started, progress, warnings, output, fnVars>>

\* lines 39-41: an entry is stored under the key, but cache.get rejected or
\* JSON.parse threw on its data
CacheReadFault(t) ==
    /\ pc = "batch"
    /\ t \in DOMAIN tasks
    /\ tasks[t].st = "get"
    /\ NormalizeKey(RawKey(tasks[t].ident)) \in DOMAIN cache
    /\ InvokeProducer(t, TRUE)

\* lines 42-44: the producer returned generatedValue; cache.set is called and not awaited
Produced(t, task, generatedValue) ==
    LET cacheKey == NormalizeKey(RawKey(task.ident))
    IN /\ writes' = writes \cup {[key |-> cacheKey,
                                  entry |-> [data |-> JsonStringify(generatedValue),
                                             key |-> cacheKey]]}
       /\ Returned(t, task, generatedValue, 1)
       /\ UNCHANGED <<pc, json, parsed, i, cache, started, progress, warnings, output, fnVars>>

\* the remote call succeeded
RemoteOk(t) ==
    /\ pc = "batch"
    /\ t \in DOMAIN tasks
    /\ tasks[t].st = "remote"
    /\ Produced(t, tasks[t],
                Producer(tasks[t].stage, [ok |-> TRUE, data |-> RemoteData(tasks[t].ident)]))

\* the remote call failed
RemoteFail(t) ==
    /\ pc = "batch"
    /\ t \in DOMAIN tasks
    /\ tasks[t].st = "remote"
    /\ Produced(t, [tasks[t] EXCEPT !.nFail = @ + 1], Producer(tasks[t].stage, [ok |-> FALSE]))

\* line 43 is outside the try of lines 36-41: the remote call completed and
\* cache.set threw, so getData rejects and with it the fetcher and updateItem
CacheSetThrows(t) ==
    /\ pc = "batch"
    /\ t \in DOMAIN tasks
    /\ tasks[t].st = "remote"
    /\ LET ts == [tasks EXCEPT ![t] = Settled(tasks[t], "rejected", Undef)]
       IN /\ tasks' = ts
          /\ settledIdx' = settledIdx \cup SettledOf(ts)
          /\ setThrewIdx' = setThrewIdx \cup {tasks[t].idx}
    /\ UNCHANGED <<pc, json, parsed, i, cache, writes, calls, firstRet, laterRet, failedIdx,
                   started, progress, warnings, output, fnVars>>

\* the write of a cache.set failed: the promise of line 43 rejects, nothing
\* awaits it, and no entry is stored
CacheWriteFail(w) ==
    /\ w \in writes
    /\ writes' = writes \ {w}
    /\ UNCHANGED <<pc, json, parsed, i, tasks, cache, calls, firstRet, laterRet, failedIdx,
                   setThrewIdx, started, settledIdx, progress, warnings, output, fnVars>>

\* the write of a cache.set reached the store
CacheWriteDone(w) ==
    /\ w \in writes
    /\ cache' = Put(cache, w.key, w.entry)
    /\ writes' = writes \ {w}
    /\ UNCHANGED <<pc, json, parsed, i, tasks, calls, firstRet, laterRet, failedIdx,
                   setThrewIdx, started, settledIdx, progress, warnings, output, fnVars>>

\* mutant: the batch goes on as soon as one promise has settled
BatchSettledAny(ts) == \E p \in 1..Len(ts) : IsSettled(ts[p])

\* line 229: Promise.allSettled resolves when every promise of the batch has settled
BatchSettled(ts) == \A p \in 1..Len(ts) : IsSettled(ts[p])

\* lines 229-241: the batch has settled; splice, report, and start the next
\* batch or return
SettleBatch ==
    /\ pc = "batch"
    /\ BatchSettled(tasks)
    /\ \E spliced \in {Splice(parsed, i, tasks)} :
          /\ parsed' = spliced
          /\ progress' = Append(progress,
                                ProgressReport(ProgressPosition(Len(spliced), i),
                                               Len(spliced)))
          /\ i' = i + 1
          /\ IF i + 1 < CeilDiv(Len(spliced), chunkSize)
             THEN \E ts \in {StartBatch(spliced, i + 1, firstRet)} :
                     /\ tasks' = ts
                     /\ calls' = Requested(calls, ts)
                     /\ started' = started \cup {ts[p].idx : p \in 1..Len(ts)}
                     /\ settledIdx' = settledIdx \cup SettledOf(ts)
                     /\ UNCHANGED <<pc, output>>
             ELSE /\ pc' = "done"
                  /\ tasks' = <<>>
                  /\ output' = Serialize(spliced)
                  /\ UNCHANGED <<calls, started, settledIdx>>
    /\ UNCHANGED <<json, cache, writes, firstRet, laterRet, failedIdx, setThrewIdx, warnings,
                   fnVars>>

(***************************************************************************)
(* Inputs of transform                                                     *)
(***************************************************************************)
MaxActive == 2
MaxLead == 1
MaxItems == 23
MaxMsg == 3

plainItem == [title |-> titleA]
npmItem == [npm |-> Str(pkg), tags |-> Arr(<<xsveltei, ui>>)]
ghItem == [repo |-> Str(ghAB), title |-> titleA]
ghOwnerOnly == [url |-> Str(httpsGithub \o <<"a">>)]
glItem == [repo |-> Str(glAB), tags |-> Arr(<<svelte>>)]

\* the items that declare a package or a repository
ActiveItems == {npmItem, ghItem, ghOwnerOnly, glItem}

Plain(n) == [p \in 1..n |-> plainItem]

\* the first item that declares a package or a repository is the first item of
\* the catalog or the last item of a batch
Leads == {0} \cup {b * chunkSize - 1 : b \in 1..MaxLead}

\* catalogs: at most MaxItems items without package and repository, or at most
\* MaxActive items that have one after such items
Catalogs ==
    {Plain(n) : n \in 0..MaxItems}
      \cup {Plain(lead) \o act : lead \in Leads, act \in SeqsUpTo(ActiveItems, MaxActive)}

componentsJson == "src/pages/components/components.json"

\* messages of the SyntaxError of JSON.parse: letters and digits, not empty
ParseMessages == SeqsUpTo({"e", "1", "5"}, MaxMsg) \ {<<>>}

\* what transform is called with: a file that line 218 filters out, a
\* catalog, or a text JSON.parse rejects
Inputs ==
    {[match |-> FALSE, ok |-> TRUE, id |-> "other.json", items |-> <<>>, message |-> <<>>]}
      \cup {[match |-> TRUE, ok |-> TRUE, id |-> componentsJson, items |-> c, message |-> <<>>] :
              c \in Catalogs}
      \cup {[match |-> TRUE, ok |-> FALSE, id |-> componentsJson, items |-> <<>>, message |-> m] :
              m \in ParseMessages}

Init ==
    /\ pc = "idle"
    /\ json \in Inputs
    /\ parsed = <<>>
    /\ i = 0
    /\ tasks = <<>>
    /\ cache = EmptyObj
    /\ writes = {}
    /\ calls = EmptyObj
    /\ firstRet = EmptyObj
    /\ laterRet = {}
    /\ failedIdx = {}
    /\ setThrewIdx = {}
    /\ started = {}
    /\ settledIdx = {}
    /\ progress = <<>>
    /\ warnings = <<>>
    /\ output = Undef
    /\ fnIn = Undef
    /\ fnOut = Undef
    /\ fnPc = "off"

Next ==
    \/ Transform
    \/ \E t \in 1..chunkSize : CacheHit(t)
    \/ \E t \in 1..chunkSize : CacheMiss(t)
    \/ \E t \in 1..chunkSize : CacheReadFault(t)
    \/ \E t \in 1..chunkSize : RemoteOk(t)
    \/ \E t \in 1..chunkSize : RemoteFail(t)
    \/ \E w \in writes : CacheWriteDone(w)
    \/ SettleBatch

Spec == Init /\ [][Next]_vars

(***************************************************************************)
(* Claims about getData and transform                                      *)
(***************************************************************************)
\* C1: a getData call that starts after a call with the same raw key has
\* returned (no expiry, and no read fault) does not invoke the producer again,
\* so that both calls invoke it at most once, and returns an equal value.
C1_SecondCallReuses ==
    \A r \in laterRet :
        ~r.fault => (r.first.n + r.n <= 1 /\ r.v = r.first.v)

RECURSIVE SumCalls(_, _)
SumCalls(c, keys) ==
    IF keys = {} THEN 0
    ELSE LET key == CHOOSE x \in keys : TRUE
         IN (c[key].n - c[key].f) + SumCalls(c, keys \ {key})

\* C2: over a run, read faults aside, the remote calls are at most as many as
\* the distinct identifiers requested: no identifier is fetched twice.
C2_OneCallPerIdentifier ==
    /\ SumCalls(calls, DOMAIN calls) <= Cardinality(DOMAIN calls)
    /\ \A key \in DOMAIN calls : calls[key].n - calls[key].f <= 1

\* the positions of the catalog that have been spliced
SplicedPositions == 1..Min(Len(parsed), i * chunkSize)

\* C3: an exception in the task of one item stays in that task: transform does
\* not reject, and every spliced position holds a record, not a missing value.
C3_FailedItemKept ==
    (json.match /\ json.ok) =>
        /\ pc # "rejected"
        /\ \A p \in SplicedPositions : parsed[p] # Undef
        /\ pc = "done" => \A p \in 1..Len(output.text) : output.text[p] # Null

EmptyValues == {Undef, Null, Str(<<>>), Arr(<<>>)}

\* out is in, or in plus fields that are absent or empty
PlusOnlyEmpty(in, out) ==
    /\ DOMAIN in \subseteq DOMAIN out
    /\ \A key \in DOMAIN in : out[key] = in[key]
    /\ \A key \in DOMAIN out \ DOMAIN in : out[key] \in EmptyValues

\* C4: an item whose remote calls all fail comes out equal to its input, or to
\* its input plus absent or empty fields, at its position in a catalog of the
\* same length.
C4_FailedItemUnchanged ==
    (json.match /\ json.ok /\ pc \in {"batch", "done"}) =>
        /\ Len(parsed) = Len(json.items)
        /\ \A idx \in failedIdx \cap SplicedPositions :
              PlusOnlyEmpty(json.items[idx], parsed[idx])

\* C5: a source text that does not parse gives exactly one warning with the id
\* and an integer position and the result null, without a throw, a remote call
\* or a cache access.
C5_ParseFailureWarns ==
    (json.match /\ ~json.ok /\ pc # "idle") =>
        /\ pc = "warned"
        /\ output = Null
        /\ Len(warnings) = 1
        /\ warnings[1].id = json.id
        /\ warnings[1].position \in 0..9
        /\ DOMAIN calls = {} /\ DOMAIN cache = {} /\ writes = {}

\* C6: for N items and batches of 10, the k-th progress report shows min(N, 10k)
\* out of N, one report is written per spliced batch, and the run ends with
\* ceil(N/10) reports, the last of which shows N.
C6_ProgressCounts ==
    (json.match /\ json.ok /\ pc \in {"batch", "done"}) =>
        LET N == Len(json.items)
            r == Len(progress)
        IN /\ r = i
           /\ \A k \in 1..r :
                /\ progress[k].position = (IF 10 * k < N THEN 10 * k ELSE N)
                /\ progress[k].total = N
                /\ k > 1 => progress[k - 1].position < progress[k].position
           /\ pc = "done" =>
                /\ 10 * (r - 1) < N /\ N <= 10 * r
                /\ r > 0 => progress[r].position = N

C6_Witness ==
    /\ pc = "done"
    /\ Len(json.items) = 23
    /\ Len(progress) = 3
    /\ progress[1].position = 10 /\ progress[2].position = 20 /\ progress[3].position = 23

\* the batch of a catalog position, counted from 0
BatchOf(idx) == (idx - 1) \div 10

\* C7: when a task of a batch has been started, every task of the batches
\* before it has settled and their results are spliced and reported; pending
\* cache reads and remote calls belong to the current batch alone.
C7_BatchesSequential ==
    /\ \A idx \in started :
          /\ Len(progress) >= BatchOf(idx)
          /\ i >= BatchOf(idx)
          /\ \A j \in 1..(10 * BatchOf(idx)) : j \in settledIdx
    /\ \A t \in DOMAIN tasks :
          ~IsSettled(tasks[t]) => (BatchOf(tasks[t].idx) = i /\ Len(progress) = i)

C7_Witness ==
    /\ pc = "batch"
    /\ i = 1
    /\ 11 \in started
    /\ tasks[1].st = "remote"
    /\ 10 \in settledIdx
    /\ Cardinality(DOMAIN calls) = 2

(***************************************************************************)
(* Identifiers: package names and (platform, owner, repositoryName)        *)
(***************************************************************************)
MaxSeg == 3

\* names of letters and hyphens that neither start nor end with a hyphen
Segments ==
    {seg \in SeqsUpTo({"a", "-"}, MaxSeg) :
        seg # <<>> /\ seg[1] # "-" /\ seg[Len(seg)] # "-"}

PackageNames == Segments \cup {<<"@">> \o scope \o <<"/">> \o name : scope \in Segments, name \in Segments}

Identifiers ==
    {[platform |-> "npm", name |-> n] : n \in PackageNames}
      \cup [platform : {"github", "gitlab"}, owner : Segments, repo : Segments]

InitKey ==
    /\ MainIdle
    /\ fnIn \in Identifiers \X Identifiers
    /\ fnOut = Undef
    /\ fnPc = "in"

\* the storage key of each of the two identifiers
CallKeys ==
    /\ fnPc = "in"
    /\ fnOut' = <<NormalizeKey(RawKey(fnIn[1])), NormalizeKey(RawKey(fnIn[2]))>>
    /\ fnPc' = "out"
    /\ UNCHANGED <<fnIn, mainVars>>

NextKey == CallKeys

SpecKey == InitKey /\ [][NextKey]_vars

\* C8: two distinct identifiers never get the same storage key.
C8_KeysInjective ==
    (fnPc = "out" /\ fnIn[1] # fnIn[2]) => fnOut[1] # fnOut[2]

(***************************************************************************)
(* Inputs of merge: records with an optional title and optional tags       *)
(***************************************************************************)
MaxTags == 2

TagNames == {ui, Svelte, svelte, xsveltei}

TagLists == {Arr(ts) : ts \in SeqsUpTo(TagNames, MaxTags)}

Absent == [k |-> "absent"]

\* the object {title, tags}, without the keys whose value is Absent
TitleTags(title, tags) ==
    [x \in {y \in {"title"} : title # Absent} \cup {y \in {"tags"} : tags # Absent} |->
        IF x = "title" THEN title ELSE tags]

MergeBases ==
    {TitleTags(t, g) : t \in {Absent, Null, titleA}, g \in {Absent, Null} \cup TagLists}

MergeAdditionals ==
    {TitleTags(t, g) : t \in {Absent, Undef, Str(<<>>), titleB, Arr(<<>>)},
                       g \in {Absent, Null, Str(ui)} \cup TagLists}

InitMerge ==
    /\ MainIdle
    /\ fnIn \in [base : MergeBases, additional : MergeAdditionals]
    /\ fnOut = Undef
    /\ fnPc = "in"

CallMerge ==
    /\ fnPc = "in"
    /\ fnOut' = merge(fnIn.base, fnIn.additional)
    /\ fnPc' = "out"
    /\ UNCHANGED <<fnIn, mainVars>>

NextMerge == CallMerge

SpecMerge == InitMerge /\ [][NextMerge]_vars

(***************************************************************************)
(* Claims about merge                                                      *)
(***************************************************************************)
\* C9: a key other than tags that base already has keeps base's value whatever
\* additional holds, and a key base lacks takes additional's value exactly when
\* that value is not undefined, null or the empty string.
C9_BaseWins ==
    fnPc = "out" =>
        /\ \A key \in DOMAIN fnIn.base \ {"tags"} :
              key \in DOMAIN fnOut /\ fnOut[key] = fnIn.base[key]
        /\ \A key \in DOMAIN fnIn.additional \ DOMAIN fnIn.base :
              IF fnIn.additional[key] \in {Undef, Null, Str(<<>>)}
              THEN key \notin DOMAIN fnOut
              ELSE key \in DOMAIN fnOut /\ fnOut[key] = fnIn.additional[key]
        /\ DOMAIN fnOut \subseteq DOMAIN fnIn.base \cup DOMAIN fnIn.additional

C9_Witness ==
    /\ fnPc = "out"
    /\ "title" \in DOMAIN fnIn.base /\ fnIn.base.title = titleA
    /\ "title" \in DOMAIN fnIn.additional /\ fnIn.additional.title = titleB
    /\ fnOut.title = titleA
    /\ "tags" \notin DOMAIN fnIn.base
    /\ "tags" \in DOMAIN fnIn.additional /\ fnIn.additional.tags = Arr(<<>>)
    /\ fnOut.tags = Arr(<<>>)

\* the tags of a record as a sequence, none when the value is not an array
TagsOf(obj) == IF Get(obj, "tags").k = "arr" THEN Get(obj, "tags").a ELSE <<>>

HasSvelte(tag) == \E p \in 1..Len(tag) : p + 5 <= Len(tag) /\ SubSeq(tag, p, p + 5) = svelte

\* C10: when base has a tags key and additional.tags is a sequence, the merged
\* tags are base's tags followed by additional's tags without the tags that
\* contain "svelte", in the same relative order, duplicates kept.
C10_TagsMerged ==
    (/\ fnPc = "out"
     /\ "tags" \in DOMAIN fnIn.base
     /\ "tags" \in DOMAIN fnIn.additional
     /\ fnIn.additional.tags.k = "arr") =>
        /\ fnOut.tags.k = "arr"
        /\ fnOut.tags.a =
              SelectSeq(TagsOf(fnIn.base) \o fnIn.additional.tags.a, LAMBDA tag : ~HasSvelte(tag))
        /\ \A p \in 1..Len(fnOut.tags.a) : ~HasSvelte(fnOut.tags.a[p])

C10_Witness ==
    /\ fnPc = "out"
    /\ "tags" \in DOMAIN fnIn.base /\ fnIn.base.tags = Arr(<<ui, xsveltei>>)
    /\ "tags" \in DOMAIN fnIn.additional /\ fnIn.additional.tags = Arr(<<Svelte, svelte>>)
    /\ fnOut.tags = Arr(<<ui, Svelte>>)

(***************************************************************************)
(* Runs that may follow an earlier run, with a store that can fail         *)
(***************************************************************************)
\* the identifiers an earlier run left entries for
SeedIdents ==
    {[platform |-> "github", owner |-> <<"a">>, repo |-> <<"b">>],
     [platform |-> "gitlab", owner |-> <<"a">>, repo |-> <<"b">>]}

\* line 43: the entries that run stored, under the normalized keys
SeededCache ==
    [k \in {NormalizeKey(RawKey(id)) : id \in SeedIdents} |->
        LET id == CHOOSE x \in SeedIdents : NormalizeKey(RawKey(x)) = k
        IN [data |-> JsonStringify(Producer(id.platform,
                                            [ok |-> TRUE, data |-> RemoteData(id)])),
            key |-> k]]

\* transform is called with a catalog; the cache is empty or holds SeededCache
InitRun(catalogs) ==
    /\ pc = "idle"
    /\ json \in {[match |-> TRUE, ok |-> TRUE, id |-> componentsJson, items |-> c,
                  message |-> <<>>] : c \in catalogs}
    /\ parsed = <<>>
    /\ i = 0
    /\ tasks = <<>>
    /\ cache \in {EmptyObj, SeededCache}
    /\ writes = {}
    /\ calls = EmptyObj
    /\ firstRet = EmptyObj
    /\ laterRet = {}
    /\ failedIdx = {}
    /\ setThrewIdx = {}
    /\ started = {}
    /\ settledIdx = {}
    /\ progress = <<>>
    /\ warnings = <<>>
    /\ output = Undef
    /\ fnIn = Undef
    /\ fnOut = Undef
    /\ fnPc = "off"

NextStore ==
    \/ Transform
    \/ \E t \in 1..chunkSize : CacheHit(t)
    \/ \E t \in 1..chunkSize : CacheMiss(t)
    \/ \E t \in 1..chunkSize : CacheReadFault(t)
    \/ \E t \in 1..chunkSize : RemoteOk(t)
    \/ \E t \in 1..chunkSize : RemoteFail(t)
    \/ \E t \in 1..chunkSize : CacheSetThrows(t)
    \/ \E w \in writes : CacheWriteDone(w)
    \/ \E w \in writes : CacheWriteFail(w)
    \/ SettleBatch

MaxStoreActive == 1

\* catalogs of items without package and repository that end inside a batch
\* or at the end of one, and catalogs with at most MaxStoreActive items that
\* have a package or a repository, at the start or across the first batches
StoreCatalogs ==
    {Plain(n) : n \in {chunkSize, 2 * chunkSize + 1}}
      \cup {Plain(lead) \o act : lead \in {0, chunkSize - 1},
                                 act \in SeqsUpTo(ActiveItems, MaxStoreActive)}

InitStore == InitRun(StoreCatalogs)

SpecStore == InitStore /\ [][NextStore]_vars

MaxPath == 2

ghAC == httpsGithub \o <<"a", "/", "c">>
httpExample == <<"h", "t", "t", "p", ":", "/", "/", "x", "/">>

\* the URLs of a platform or of none, with every path of at most MaxPath
\* characters: no, one, two segments, empty segments
PathUrls ==
    {prefix \o path : prefix \in {httpsGithub, sshGithub, gitGithub, httpsGitlab, httpExample},
                      path \in SeqsUpTo({"a", "/"}, MaxPath)}

\* items that declare a URL only: every URL of PathUrls, the empty string,
\* null, or none
UrlItems ==
    {[url |-> Str(u)] : u \in PathUrls} \cup {[url |-> Str(<<>>)], [url |-> Null], EmptyObj}

\* the object with the keys whose value is not Absent
Fields(npm, repo, url, title, tags) ==
    LET all == [npm |-> npm, repo |-> repo, url |-> url, title |-> title, tags |-> tags]
    IN [x \in {y \in DOMAIN all : all[y] # Absent} |-> all[x]]

\* items that declare a package, a repository, a URL, a title and tags, or
\* lack them
FieldItems ==
    {Fields(npm, repo, url, title, tags) :
        npm \in {Absent, Str(pkg)},
        repo \in {Absent, Null, Str(<<>>), Str(ghAB), Str(ghAC), Str(glAB)},
        url \in {Absent, Str(ghAC), Str(glAB), Str(httpExample)},
        title \in {Absent, titleA},
        tags \in {Absent, Arr(<<ui>>)}}

ItemCatalogs == {<<item>> : item \in UrlItems \cup FieldItems}

InitItem == InitRun(ItemCatalogs)

SpecItem == InitItem /\ [][NextStore]_vars

(***************************************************************************)
(* Claims about the fetchers, the store and updateItem                     *)
(***************************************************************************)
\* every field of the record is null, undefined, the empty string or the
\* empty array
AllAbsent(record) ==
    \A key \in DOMAIN record : record[key] \in EmptyValues

\* C11: whatever URL an item declares (none, empty, of no platform, or of a
\* platform with any number of path segments) and however the remote call
\* ends, getGithubInfo and getGitlabInfo complete with a record and never
\* raise: updateItem rejects only where cache.set threw; and a fetcher that
\* made no call, or whose calls all failed, returned a record with no data.
C11_FetchersNeverRaise ==
    \A t \in DOMAIN tasks :
        /\ tasks[t].st = "rejected" => tasks[t].idx \in setThrewIdx
        /\ \A g \in 1..Len(tasks[t].got) :
              (/\ tasks[t].got[g].stage # "npm"
               /\ \/ ~tasks[t].got[g].io
                  \/ tasks[t].nHit = 0 /\ tasks[t].nFail = tasks[t].nRemote)
                 => AllAbsent(tasks[t].got[g].value)

\* C12: when cache.set throws or its write fails, getData still returns the
\* value of the producer: the item whose fetch met the failure is enriched, not
\* rejected, and its position of the catalog holds a record after the splice.
C12_StoreFailureHarmless ==
    /\ \A t \in DOMAIN tasks : tasks[t].idx \in setThrewIdx => tasks[t].st # "rejected"
    /\ \A idx \in setThrewIdx \cap SplicedPositions : parsed[idx] # Undef

\* the values the producer of a stage can return for an identifier
ProducerValues(stage, ident) ==
    {Producer(stage, [ok |-> TRUE, data |-> RemoteData(ident)]), Producer(stage, [ok |-> FALSE])}

\* C13: a cache read that ends without a hit (no entry, or an entry whose read
\* or parse faulted) surfaces no error: the producer is invoked exactly once for
\* the call, the item is untouched, and when the remote call completes the
\* fetcher receives the value of the producer.
C13_ReadFaultIsMiss ==
    /\ [][\A t \in DOMAIN tasks :
            (/\ pc = "batch" /\ pc' = "batch" /\ i' = i
             /\ tasks[t].st = "get"
             /\ tasks'[t] # tasks[t]
             /\ tasks'[t].nHit = tasks[t].nHit)
               => /\ tasks'[t].st = "remote"
                  /\ tasks'[t].nRemote = tasks[t].nRemote + 1
                  /\ tasks'[t].item = tasks[t].item
                  /\ tasks'[t].ident = tasks[t].ident
                  /\ tasks'[t].got = tasks[t].got
                  /\ calls'[RawKey(tasks[t].ident)].n = calls[RawKey(tasks[t].ident)].n + 1]_vars
    /\ [][\A t \in DOMAIN tasks :
            (/\ pc = "batch" /\ pc' = "batch" /\ i' = i
             /\ tasks[t].st = "remote"
             /\ Len(tasks'[t].got) > Len(tasks[t].got))
               => LET g == tasks'[t].got[Len(tasks[t].got) + 1]
                  IN /\ g.stage = tasks[t].stage
                     /\ g.io
                     /\ g.value \in ProducerValues(tasks[t].stage, tasks[t].ident)]_vars

\* the entry of the repository was stored, the read of it faulted, and the
\* item was enriched by the one remote call that followed
C13_Witness ==
    /\ cache = SeededCache
    /\ \E t \in DOMAIN tasks :
          /\ tasks[t].st = "fulfilled"
          /\ tasks[t].nRemote = 1 /\ tasks[t].nHit = 0
          /\ tasks[t].item = [repo |-> Str(ghAB), title |-> titleA, stars |-> Num(5),
                              description |-> Str(<<"G">>), tags |-> Arr(<<>>)]
    /\ calls[GithubKey(<<"a">>, <<"b">>)] = [n |-> 1, f |-> 1]

(***************************************************************************)
(* The widest fan-out: a first run on a catalog whose items all declare    *)
(* the same repository.  The remote calls succeed and the writes of the    *)
(* store are still pending when the run ends, so that every task makes its *)
(* remote call; a cache hit would only end a task earlier.                 *)
(***************************************************************************)
MaxOver == 1

\* a full batch and MaxOver items more
FanoutCatalogs == {[p \in 1..(chunkSize + MaxOver) |-> ghItem]}

InitFanout == InitRun(FanoutCatalogs) /\ cache = EmptyObj

NextFanout ==
    \/ Transform
    \/ \E t \in 1..chunkSize : CacheMiss(t)
    \/ \E t \in 1..chunkSize : RemoteOk(t)
    \/ SettleBatch

SpecFanout == InitFanout /\ [][NextFanout]_vars

\* the promises of the batch that have not settled
InFlight == {t \in DOMAIN tasks : ~IsSettled(tasks[t])}

\* the tasks whose remote call is pending; a task awaits each call (lines 42,
\* 205-209), so it has at most one
Outstanding == {t \in DOMAIN tasks : tasks[t].st = "remote"}

\* C14: in every state of a run at most chunkSize (10) updateItem tasks are in
\* flight and at most chunkSize remote calls are outstanding.
C14_FanoutBounded ==
    /\ Len(tasks) <= chunkSize
    /\ Cardinality(InFlight) <= chunkSize
    /\ Cardinality(Outstanding) <= chunkSize

\* the catalog is longer than a batch and the remote calls of all the items of
\* the first batch are outstanding together
C14_Witness ==
    /\ Len(parsed) > chunkSize
    /\ i = 0
    /\ Cardinality(Outstanding) = chunkSize

\* C15: after every batch and at the end the catalog has the length of the
\* input; a position whose batch was processed holds the enriched item of
\* that position (a record with the input's fields other than tags), and
\* every other position holds the input item.
C15_PositionsKept ==
    (json.match /\ json.ok /\ pc \in {"batch", "done"}) =>
        /\ Len(parsed) = Len(json.items)
        /\ \A p \in 1..Len(parsed) :
              IF p \in SplicedPositions
              THEN /\ parsed[p] # Undef
                   /\ \A key \in DOMAIN json.items[p] \ {"tags"} :
                         key \in DOMAIN parsed[p] /\ parsed[p][key] = json.items[p][key]
              ELSE parsed[p] = json.items[p]

\* C16: only a remote call that succeeded leaves an entry: no write that
\* cache.set started and no stored entry holds a record without data.
C16_OnlySuccessCached ==
    /\ \A w \in writes : ~AllAbsent(JsonParse(w.entry.data))
    /\ \A k \in DOMAIN cache : ~AllAbsent(JsonParse(cache[k].data))

\* C17: for a base whose tags are a sequence, merge(base, {tags: []}) has the
\* tags of base, the same elements in the same order.
C17_EmptyTagsNoOp ==
    (/\ fnPc = "out"
     /\ "tags" \in DOMAIN fnIn.base
     /\ fnIn.base.tags.k = "arr"
     /\ "tags" \in DOMAIN fnIn.additional
     /\ fnIn.additional.tags = Arr(<<>>)) =>
        fnOut.tags = fnIn.base.tags

\* the input item of a task followed by the records its fetchers returned
SourcesOf(task) ==
    <<json.items[task.idx]>> \o [g \in 1..Len(task.got) |-> task.got[g].value]

\* source k supplies the key: the input item when it has the key, a record
\* when its value for the key is not undefined, null or the empty string
Supplies(sources, k, key) ==
    /\ key \in DOMAIN sources[k]
    /\ k = 1 \/ sources[k][key] \notin {Undef, Null, Str(<<>>)}

\* the value of the key in the first of the first n sources that supplies it,
\* undefined when none does
FirstOf(sources, n, key) ==
    IF \E k \in 1..n : Supplies(sources, k, key)
    THEN sources[CHOOSE k \in 1..n : /\ Supplies(sources, k, key)
                                     /\ \A j \in 1..(k - 1) : ~Supplies(sources, j, key)][key]
    ELSE Undef

KeysOf(sources) == UNION {DOMAIN sources[k] : k \in 1..Len(sources)}

\* C18: an item that updateItem returned was folded with the record of the
\* registry (only when the input has an npm key), then of GitHub, then of
\* GitLab; each hosting fetcher was called with repo, or else url, of the
\* record folded so far; every key other than tags has the value of the first
\* of input, registry, GitHub and GitLab that supplies it, and the input's
\* keys other than tags have the input's values.
C18_FoldOrder ==
    \A t \in DOMAIN tasks :
        tasks[t].st = "fulfilled" =>
            LET task == tasks[t]
                in == json.items[task.idx]
                sources == SourcesOf(task)
            IN /\ [g \in 1..Len(task.got) |-> task.got[g].stage] =
                     IF "npm" \in DOMAIN in THEN <<"npm", "github", "gitlab">>
                     ELSE <<"github", "gitlab">>
               /\ \A g \in 1..Len(task.got) :
                     task.got[g].arg =
                        IF task.got[g].stage = "npm" THEN in.npm
                        ELSE OrElse(FirstOf(sources, g, "repo"), FirstOf(sources, g, "url"))
               /\ \A key \in KeysOf(sources) \ {"tags"} :
                     IF \E k \in 1..Len(sources) : Supplies(sources, k, key)
                     THEN /\ key \in DOMAIN task.item
                          /\ task.item[key] = FirstOf(sources, Len(sources), key)
                     ELSE key \notin DOMAIN task.item
               /\ \A key \in DOMAIN in \ {"tags"} :
                     key \in DOMAIN task.item /\ task.item[key] = in[key]

\* the item declares a package and the URL of a GitLab project: the registry
\* supplied repo, title and description, GitHub was called with the repository
\* of the registry and supplied stars, GitLab supplied nothing
C18_Witness ==
    \E t \in DOMAIN tasks :
        /\ tasks[t].st = "fulfilled"
        /\ json.items[tasks[t].idx] = [npm |-> Str(pkg), url |-> Str(glAB)]
        /\ tasks[t].nRemote = 2 /\ tasks[t].nFail = 0
        /\ tasks[t].item = [npm |-> Str(pkg), url |-> Str(glAB), repo |-> Str(ghAB),
                            title |-> Str(pkg), description |-> Str(<<"D">>),
                            stars |-> Num(5), tags |-> Arr(<<ui>>)]

\* the records of the two hosting fetchers in the log of a task
HostEntries(task) ==
    {g \in 1..Len(task.got) : task.got[g].stage \in {"github", "gitlab"}}

\* C19: getGithubInfo and getGitlabInfo of an item are called with the same
\* URL, at most one of them reads the cache or calls its service, and the other
\* returns its empty record without either.
C19_OnePlatform ==
    \A t \in DOMAIN tasks :
        LET task == tasks[t]
        IN /\ \A g, h \in HostEntries(task) : task.got[g].arg = task.got[h].arg
           /\ Cardinality({g \in HostEntries(task) : task.got[g].io}) <= 1
           /\ \A g \in HostEntries(task) :
                 ~task.got[g].io =>
                    task.got[g].value = IF task.got[g].stage = "github" THEN GithubEmpty
                                        ELSE GitlabEmpty
           /\ (task.st \in {"get", "remote"} /\ task.stage = "gitlab") =>
                 \A g \in HostEntries(task) : ~task.got[g].io /\ task.got[g].arg = LookupUrl(task.item)

\* the item declares a GitHub repository whose record supplies a url, the URL
\* of a GitLab project: GitHub was read, GitLab was called with the repository
\* and returned its empty record
C19_Witness ==
    \E t \in DOMAIN tasks :
        /\ tasks[t].st = "fulfilled"
        /\ json.items[tasks[t].idx] = [repo |-> Str(ghAC)]
        /\ tasks[t].item.url = Str(glAB)
        /\ tasks[t].got = <<[stage |-> "github", arg |-> Str(ghAC), io |-> TRUE,
                             value |-> GithubProducer([ok |-> TRUE,
                                                       data |-> GithubData(<<"a">>, <<"c">>)])],
                            [stage |-> "gitlab", arg |-> Str(ghAC), io |-> FALSE,
                             value |-> GitlabEmpty]>>

(***************************************************************************)
(* Termination.  Once transform has been called, the event loop runs the   *)
(* code that follows a settled batch, and a cache read or a remote call    *)
(* that is pending completes, one way or another.  Nothing is assumed of   *)
(* the writes of the store, which transform does not wait for.             *)
(***************************************************************************)
ReadCompletes(t) == CacheMiss(t) \/ CacheReadFault(t) \/ CacheHit(t)

RemoteCompletes(t) == CacheSetThrows(t) \/ RemoteOk(t) \/ RemoteFail(t)

FairStore ==
    /\ SpecStore
    /\ WF_vars(SettleBatch)
    /\ WF_vars(\E t \in 1..chunkSize : ReadCompletes(t))
    /\ WF_vars(\E t \in 1..chunkSize : RemoteCompletes(t))

\* C20: when every cache read and every remote call completes, a run that
\* transform started on a catalog of N items finishes: transform returns the
\* serialized catalog after exactly ceil(N / chunkSize) batches, one report
\* per batch, whether or not tasks of it failed.
C20_RunFinishes ==
    (pc = "batch") ~>
        (/\ pc = "done"
         /\ i = CeilDiv(Len(json.items), chunkSize)
         /\ Len(progress) = CeilDiv(Len(json.items), chunkSize)
         /\ output = Serialize(parsed))

\* a run has finished although the task of the last item of its batch rejected
C20_Witness ==
    /\ pc = "done"
    /\ i = 1
    /\ Len(json.items) = chunkSize
    /\ setThrewIdx = {chunkSize}
    /\ parsed[chunkSize] = Undef

====
